---------------------------- MODULE Spec2Model ----------------------------
(***************************************************************************)
(* Model of the Geo class hierarchy (geo.hpp) and of its demonstration     *)
(* program (geoex.cpp).                                                    *)
(*                                                                         *)
(* Numbers.  A C++ double is modelled as a binary fixed-point number: the  *)
(* integer n stands for n / 2^FracBits.  Addition is exact; every product  *)
(* and quotient is rounded to the nearest representable value (ties away   *)
(* from zero), once per operation and in the source's order of evaluation, *)
(* as IEEE-754 arithmetic rounds each operation.  Shape parameters are     *)
(* multiples of 1/2 and coordinates are integers, values a double holds    *)
(* exactly and whose products are exact in both arithmetics; every product *)
(* with M_PI is rounded in both.                                           *)
(*                                                                         *)
(* Member functions.  No member function of geo.hpp is declared const, so  *)
(* each is modelled as a function of the object it is called on giving an  *)
(* outcome: the object afterwards (self), the value returned (ret) and     *)
(* whether an exception left the call (thrown).                            *)
(***************************************************************************)
EXTENDS Integers, Sequences, FiniteSets, TLC

(* ------------------------------ bounds -------------------------------- *)
\* fractional bits of the fixed-point model of double
FracBits == 10
\* shape parameters range over -MaxHalf/2 .. MaxHalf/2 in steps of 1/2
MaxHalf == 4
\* coordinates range over the integers -1 .. MaxCoord
MaxCoord == 0
\* the demo is started with argc in 1 .. MaxArgc
MaxArgc == 3
\* tolerance, in units of 2^-FracBits, of comparisons between rounded results
Tol == 4

(* --------------------------- double arithmetic ------------------------ *)
Scale == 2 ^ FracBits

Abs(n) == IF n < 0 THEN -n ELSE n

Sgn(n) == IF n < 0 THEN -1 ELSE 1

\* n / d rounded to the nearest integer, ties away from zero (d # 0)
RoundDiv(n, d) == Sgn(n) * Sgn(d) * ((2 * Abs(n) + Abs(d)) \div (2 * Abs(d)))

\* the double with integer value k
I(k) == k * Scale

\* the double with value k / 2
H(k) == k * (Scale \div 2)

\* operator* on doubles
Mul(a, b) == RoundDiv(a * b, Scale)

\* operator/ on doubles (b # 0)
Div(a, b) == RoundDiv(a * Scale, b)

\* the numerator and denominator of the rational 355/113 = 3.1415929...
PiNum == 355
PiDen == 113

\* M_PI of <cmath>, rounded to the model's precision
M_PI == RoundDiv(PiNum * Scale, PiDen)

\* the outcome of a member function that returns v and leaves the object o
Returns(o, v) == [self |-> o, ret |-> v, thrown |-> FALSE]

(* ------------------------------ Point2D ------------------------------- *)
Point2D_ctor(px, py) == [x |-> px, y |-> py]

Point2D_getX(p) == Returns(p, p.x)

Point2D_getY(p) == Returns(p, p.y)

(* ------------------------------ Point3D ------------------------------- *)
Point3D_ctor(px, py, pz) == [x |-> px, y |-> py, z |-> pz]

Point3D_getZ(p) == Returns(p, p.z)

\* the Point2D base subobject of a Point3D (copy through a Point2D)
Point2D_slice(p) == [x |-> p.x, y |-> p.y]

(* ------------------------- Shape2D / Shape3D -------------------------- *)
\* Shape2D(Point2D * p) : ref_point(*p)
Shape2D_ctorP(p) == [ref_point |-> Point2D_slice(p)]

\* Shape2D(double px, double py) : ref_point(px, py)
Shape2D_ctorXY(px, py) == [ref_point |-> Point2D_ctor(px, py)]

\* Shape3D(Point3D * p) : ref_point(*p)
Shape3D_ctor(p) == [ref_point |-> p]

\* double Shape3D::perimeter(void) { return 0; }
Shape3D_perimeter(s) == Returns(s, 0)

(* ------------------------------- Circle ------------------------------- *)
Circle_ctorP(p, r) == [ref_point |-> Shape2D_ctorP(p).ref_point, radius |-> r]

\* mutant: the arguments mixed up, the radius taken from py
Circle_ctorXY_mixed(px, py, r) ==
    [ref_point |-> Shape2D_ctorXY(px, py).ref_point, radius |-> py]

Circle_ctorXY(px, py, r) ==
    [ref_point |-> Shape2D_ctorXY(px, py).ref_point, radius |-> r]

Circle_getRadius(c) == Returns(c, c.radius)

\* mutant: M_PI * radius, the second factor forgotten
Circle_area_linear(c) == Returns(c, Mul(M_PI, c.radius))

\* M_PI * radius * radius
Circle_area(c) == Returns(c, Mul(Mul(M_PI, c.radius), c.radius))

\* 2 * M_PI * radius
Circle_perimeter(c) == Returns(c, Mul(Mul(I(2), M_PI), c.radius))

(* ------------------------------ Rectangle ----------------------------- *)
Rectangle_ctorP(p, w, h) ==
    [ref_point |-> Shape2D_ctorP(p).ref_point, width |-> w, height |-> h]

Rectangle_ctorXY(px, py, w, h) ==
    [ref_point |-> Shape2D_ctorXY(px, py).ref_point, width |-> w, height |-> h]

Rectangle_getWidth(r) == Returns(r, r.width)

Rectangle_getHeight(r) == Returns(r, r.height)

\* mutant: the dimensions validated, a negative area refused
Rectangle_area_validated(r) ==
    IF Mul(r.width, r.height) < 0
    THEN [self |-> r, ret |-> 0, thrown |-> TRUE]
    ELSE Returns(r, Mul(r.width, r.height))

\* width * height
Rectangle_area(r) == Returns(r, Mul(r.width, r.height))

\* mutant: 2 * width + height
Rectangle_perimeter_oneHeight(r) ==
    Returns(r, Mul(I(2), r.width) + r.height)

\* 2 * width + 2 * height
Rectangle_perimeter(r) == Returns(r, Mul(I(2), r.width) + Mul(I(2), r.height))

(* ------------------------------- Square ------------------------------- *)
Square_ctorP(p, s) == [ref_point |-> Shape2D_ctorP(p).ref_point, side |-> s]

Square_ctorXY(x, y, s) ==
    [ref_point |-> Shape2D_ctorXY(x, y).ref_point, side |-> s]

Square_getSide(q) == Returns(q, q.side)

\* mutant: side *= side; return side
Square_area_inPlace(q) ==
    Returns([q EXCEPT !.side = Mul(q.side, q.side)], Mul(q.side, q.side))

\* side * side
Square_area(q) == Returns(q, Mul(q.side, q.side))

\* mutant: side * side, the area's formula copied
Square_perimeter_squared(q) == Returns(q, Mul(q.side, q.side))

\* side * 4
Square_perimeter(q) == Returns(q, Mul(q.side, I(4)))

(* ------------------------------- Sphere ------------------------------- *)
\* Sphere(Point3D * cntr, double r)
\*   : Shape3D(cntr), cr(cntr->getX(), cntr->getY(), r)
Sphere_ctor(cntr, r) ==
    [ref_point |-> Shape3D_ctor(cntr).ref_point,
     cr |-> Circle_ctorXY(Point2D_getX(cntr).ret, Point2D_getY(cntr).ret, r)]

\* return cr.getRadius()
Sphere_getRadius(s) ==
    LET g == Circle_getRadius(s.cr)
    IN  [self |-> [s EXCEPT !.cr = g.self], ret |-> g.ret, thrown |-> g.thrown]

\* 4 * M_PI * cr.getRadius() * cr.getRadius()
Sphere_area(s) ==
    LET g1 == Circle_getRadius(s.cr)
        g2 == Circle_getRadius(g1.self)
    IN  [self |-> [s EXCEPT !.cr = g2.self],
         ret |-> Mul(Mul(Mul(I(4), M_PI), g1.ret), g2.ret),
         thrown |-> g1.thrown \/ g2.thrown]

\* mutant: Sphere without its override, the call runs Shape3D::perimeter
Sphere_perimeter_inherited(s) == Shape3D_perimeter(s)

\* return cr.perimeter()
Sphere_perimeter(s) ==
    LET c == Circle_perimeter(s.cr)
    IN  [self |-> [s EXCEPT !.cr = c.self], ret |-> c.ret, thrown |-> c.thrown]

\* 4.0/3.0 * M_PI * cr.getRadius() * cr.getRadius() * cr.getRadius()
Sphere_volume(s) ==
    LET g1 == Circle_getRadius(s.cr)
        g2 == Circle_getRadius(g1.self)
        g3 == Circle_getRadius(g2.self)
    IN  [self |-> [s EXCEPT !.cr = g3.self],
         ret |-> Mul(Mul(Mul(Mul(Div(I(4), I(3)), M_PI), g1.ret), g2.ret), g3.ret),
         thrown |-> g1.thrown \/ g2.thrown \/ g3.thrown]

(* -------------------------------- Cube -------------------------------- *)
\* Cube(Point3D * p, double s) : Shape3D(p), sq(p->getX(), p->getY(), s)
Cube_ctor(p, s) ==
    [ref_point |-> Shape3D_ctor(p).ref_point,
     sq |-> Square_ctorXY(Point2D_getX(p).ret, Point2D_getY(p).ret, s)]

\* return sq.getSide()
Cube_getEdge(c) ==
    LET g == Square_getSide(c.sq)
    IN  [self |-> [c EXCEPT !.sq = g.self], ret |-> g.ret, thrown |-> g.thrown]

\* mutant: the area of one face, the factor 6 forgotten
Cube_area_oneFace(c) ==
    LET a == Square_area(c.sq)
    IN  [self |-> [c EXCEPT !.sq = a.self], ret |-> a.ret, thrown |-> a.thrown]

\* return sq.area() * 6
Cube_area(c) ==
    LET a == Square_area(c.sq)
    IN  [self |-> [c EXCEPT !.sq = a.self], ret |-> Mul(a.ret, I(6)),
         thrown |-> a.thrown]

\* mutant: Cube given a perimeter of its own, the sum of its twelve edges
Cube_perimeter_edges(c) ==
    LET g == Square_getSide(c.sq)
    IN  [self |-> [c EXCEPT !.sq = g.self], ret |-> Mul(g.ret, I(12)),
         thrown |-> g.thrown]

\* Cube declares no perimeter(): the call runs Shape3D::perimeter
Cube_perimeter(c) == Shape3D_perimeter(c)

\* sq.getSide() * sq.getSide() * sq.getSide()
Cube_volume(c) ==
    LET g1 == Square_getSide(c.sq)
        g2 == Square_getSide(g1.self)
        g3 == Square_getSide(g2.self)
    IN  [self |-> [c EXCEPT !.sq = g3.self],
         ret |-> Mul(Mul(g1.ret, g2.ret), g3.ret),
         thrown |-> g1.thrown \/ g2.thrown \/ g3.thrown]

(* ============================ the state =============================== *)
VARIABLES
    in,        \* library: the arguments the objects were constructed from
    shape,     \* library: the constructed objects, by name
    ret,       \* library: the last call made and the value it returned
    exc,       \* library: an exception has left a constructor or a call
    argc,      \* demo: main's argc
    pc,        \* demo: the line of geoex.cpp main is at (67: returned)
    col,       \* demo: the operator<< of the current line that runs next
    p2d0,      \* demo: the automatic variable p2d0
    p3d0,      \* demo: the automatic variable p3d0
    heap,      \* demo: the object each pointer of main refers to
    out,       \* demo: what has been inserted into cout, in order
    released,  \* demo: the pointers deleted so far, in order
    exitCode   \* demo: main's return value (-1: has not returned)

libVars == <<in, shape, ret, exc>>

demoVars == <<argc, pc, col, p2d0, p3d0, heap, out, released, exitCode>>

vars == <<in, shape, ret, exc, argc, pc, col, p2d0, p3d0, heap, out, released,
          exitCode>>

(* ==================== the library, object by object =================== *)
Coords == {I(k) : k \in -1 .. MaxCoord}

Params == {H(k) : k \in -MaxHalf .. MaxHalf}

Forms == {"point", "coords"}

Inputs == [px : Coords, py : Coords, pz : Coords, a : Params, b : Params,
           form : Forms]

NoCall == [obj |-> "none", op |-> "none", val |-> 0]

\* The objects built from the arguments i: the two points, then each planar
\* shape by the constructor i.form selects, then the two spatial shapes.
Construct(i) ==
    LET p2 == Point2D_ctor(i.px, i.py)
        p3 == Point3D_ctor(i.px, i.py, i.pz)
    IN  [p2d    |-> p2,
         p3d    |-> p3,
         circle |-> IF i.form = "point" THEN Circle_ctorP(p2, i.a)
                    ELSE Circle_ctorXY(i.px, i.py, i.a),
         rect   |-> IF i.form = "point" THEN Rectangle_ctorP(p2, i.a, i.b)
                    ELSE Rectangle_ctorXY(i.px, i.py, i.a, i.b),
         square |-> IF i.form = "point" THEN Square_ctorP(p2, i.a)
                    ELSE Square_ctorXY(i.px, i.py, i.a),
         sphere |-> Sphere_ctor(p3, i.a),
         cube   |-> Cube_ctor(p3, i.a)]

\* The member function op of the object named o, applied to the object x.
Apply(o, op, x) ==
    CASE op = "getX"      -> Point2D_getX(x)
      [] op = "getY"      -> Point2D_getY(x)
      [] op = "getZ"      -> Point3D_getZ(x)
      [] op = "getWidth"  -> Rectangle_getWidth(x)
      [] op = "getHeight" -> Rectangle_getHeight(x)
      [] op = "getSide"   -> Square_getSide(x)
      [] op = "getEdge"   -> Cube_getEdge(x)
      [] op = "volume"    -> IF o = "sphere" THEN Sphere_volume(x)
                             ELSE Cube_volume(x)
      [] op = "getRadius" -> IF o = "circle" THEN Circle_getRadius(x)
                             ELSE Sphere_getRadius(x)
      [] op = "area"      -> (CASE o = "circle" -> Circle_area(x)
                                [] o = "rect"   -> Rectangle_area(x)
                                [] o = "square" -> Square_area(x)
                                [] o = "sphere" -> Sphere_area(x)
                                [] o = "cube"   -> Cube_area(x))
      [] op = "perimeter" -> (CASE o = "circle" -> Circle_perimeter(x)
                                [] o = "rect"   -> Rectangle_perimeter(x)
                                [] o = "square" -> Square_perimeter(x)
                                [] o = "sphere" -> Sphere_perimeter(x)
                                [] o = "cube"   -> Cube_perimeter(x))

\* One call o.op(): the object becomes what the call leaves, the value
\* returned is recorded.
Call(o, op) ==
    LET r == Apply(o, op, shape[o])
    IN  /\ shape' = [shape EXCEPT ![o] = r.self]
        /\ ret' = [obj |-> o, op |-> op, val |-> r.ret]
        /\ exc' = (exc \/ r.thrown)
        /\ UNCHANGED <<in, argc, pc, col, p2d0, p3d0, heap, out, released,
                       exitCode>>

Call_getX == \E o \in {"p2d", "p3d"} : Call(o, "getX")

Call_getY == \E o \in {"p2d", "p3d"} : Call(o, "getY")

Call_getZ == Call("p3d", "getZ")

Call_getRadius == \E o \in {"circle", "sphere"} : Call(o, "getRadius")

Call_getWidth == Call("rect", "getWidth")

Call_getHeight == Call("rect", "getHeight")

Call_getSide == Call("square", "getSide")

Call_getEdge == Call("cube", "getEdge")

Call_area ==
    \E o \in {"circle", "rect", "square", "sphere", "cube"} : Call(o, "area")

Call_perimeter ==
    \E o \in {"circle", "rect", "square", "sphere", "cube"} :
        Call(o, "perimeter")

Call_volume == \E o \in {"sphere", "cube"} : Call(o, "volume")

(* ============================== the demo ============================== *)
Null == [null |-> TRUE]

Pointers == {"pCircle", "pSquare", "pSphere", "pCube"}

NotStarted ==
    /\ pc = 37
    /\ col = 0
    /\ p2d0 = Null
    /\ p3d0 = Null
    /\ heap = [p \in Pointers |-> [st |-> "unset", obj |-> Null]]
    /\ out = << >>
    /\ released = << >>
    /\ exitCode = -1

\* the lines of main that print, and what each prints
PrintLines == {44, 45, 46, 48, 49, 50, 52, 53, 54, 55, 57, 58, 59, 60}

Stmt(l) ==
    CASE l = 44 -> [text |-> "A circle with radius ", ptr |-> "pCircle", op |-> "getRadius"]
      [] l = 45 -> [text |-> " Circle's area is ", ptr |-> "pCircle", op |-> "area"]
      [] l = 46 -> [text |-> " Circle's circumference is ", ptr |-> "pCircle", op |-> "perimeter"]
      [] l = 48 -> [text |-> "A square with side ", ptr |-> "pSquare", op |-> "getSide"]
      [] l = 49 -> [text |-> " Square's area is ", ptr |-> "pSquare", op |-> "area"]
      [] l = 50 -> [text |-> " Square's perimeter is ", ptr |-> "pSquare", op |-> "perimeter"]
      [] l = 52 -> [text |-> "A sphere with radius ", ptr |-> "pSphere", op |-> "getRadius"]
      [] l = 53 -> [text |-> " Sphere's surface area is ", ptr |-> "pSphere", op |-> "area"]
      [] l = 54 -> [text |-> " Sphere's circumference is ", ptr |-> "pSphere", op |-> "perimeter"]
      [] l = 55 -> [text |-> " Sphere's volume is ", ptr |-> "pSphere", op |-> "volume"]
      [] l = 57 -> [text |-> "A cube with edge ", ptr |-> "pCube", op |-> "getEdge"]
      [] l = 58 -> [text |-> " Cube's surface area is ", ptr |-> "pCube", op |-> "area"]
      [] l = 59 -> [text |-> " Cube's perimeter is ", ptr |-> "pCube", op |-> "perimeter"]
      [] l = 60 -> [text |-> " Cube's volume is ", ptr |-> "pCube", op |-> "volume"]

\* the line that runs after the print statement at line l (blank lines skipped)
AfterPrint(l) == IF l + 1 \in PrintLines THEN l + 1 ELSE l + 2

\* the class of the object each pointer is declared to point to
ObjectOf(ptr) ==
    CASE ptr = "pCircle" -> "circle"
      [] ptr = "pSquare" -> "square"
      [] ptr = "pSphere" -> "sphere"
      [] ptr = "pCube"   -> "cube"

\* The outcomes of ptr->op(): the member function's on a live object; on a
\* released one the behaviour is undefined, any value may come back.
Deref(ptr, op) ==
    IF heap[ptr].st = "live"
    THEN {Apply(ObjectOf(ptr), op, heap[ptr].obj)}
    ELSE {Returns(heap[ptr].obj, v) : v \in {0, I(1)}}

\* Geo::Point2D p2d0(0, 0);
DeclP2d0 ==
    /\ pc = 37
    /\ p2d0' = Point2D_ctor(I(0), I(0))
    /\ pc' = 38
    /\ UNCHANGED <<libVars, argc, col, p3d0, heap, out, released, exitCode>>

\* Geo::Point3D p3d0(0, 0, 0);
DeclP3d0 ==
    /\ pc = 38
    /\ p3d0' = Point3D_ctor(I(0), I(0), I(0))
    /\ pc' = 39
    /\ UNCHANGED <<libVars, argc, col, p2d0, heap, out, released, exitCode>>

\* ptr = new T(...), the statement at line l
New(l, ptr, o) ==
    /\ pc = l
    /\ heap' = [heap EXCEPT ![ptr] = [st |-> "live", obj |-> o]]
    /\ pc' = IF l = 42 THEN 44 ELSE l + 1
    /\ UNCHANGED <<libVars, argc, col, p2d0, p3d0, out, released, exitCode>>

NewCircle == New(39, "pCircle", Circle_ctorP(p2d0, H(7)))

NewSquare == New(40, "pSquare", Square_ctorP(p2d0, I(3)))

NewSphere == New(41, "pSphere", Sphere_ctor(p3d0, H(7)))

NewCube == New(42, "pCube", Cube_ctor(p3d0, I(3)))

\* cout << "text"
InsertText ==
    /\ pc \in PrintLines
    /\ col = 0
    /\ out' = Append(out, [k |-> "text", s |-> Stmt(pc).text, ptr |-> "",
                           op |-> "", v |-> 0])
    /\ col' = 1
    /\ UNCHANGED <<libVars, argc, pc, p2d0, p3d0, heap, released, exitCode>>

\* ... << ptr->op()
InsertValue ==
    /\ pc \in PrintLines
    /\ col = 1
    /\ \E r \in Deref(Stmt(pc).ptr, Stmt(pc).op) :
          /\ heap' = [heap EXCEPT ![Stmt(pc).ptr].obj = r.self]
          /\ out' = Append(out, [k |-> "value", s |-> "", ptr |-> Stmt(pc).ptr,
                                 op |-> Stmt(pc).op, v |-> r.ret])
    /\ col' = 2
    /\ UNCHANGED <<libVars, argc, pc, p2d0, p3d0, released, exitCode>>

\* ... << endl;
InsertEndl ==
    /\ pc \in PrintLines
    /\ col = 2
    /\ out' = Append(out, [k |-> "endl", s |-> "", ptr |-> "", op |-> "",
                           v |-> 0])
    /\ col' = 0
    /\ pc' = AfterPrint(pc)
    /\ UNCHANGED <<libVars, argc, p2d0, p3d0, heap, released, exitCode>>

\* delete ptr; the statement at line l
Delete(l, ptr) ==
    /\ pc = l
    /\ heap' = [heap EXCEPT ![ptr].st = "freed"]
    /\ released' = Append(released, ptr)
    /\ pc' = l + 1
    /\ UNCHANGED <<libVars, argc, col, p2d0, p3d0, out, exitCode>>

DeleteCube == Delete(62, "pCube")

\* mutant: the line above copied, the pointer not changed
DeleteSphere_copied == Delete(63, "pCube")

DeleteSphere == Delete(63, "pSphere")

DeleteSquare == Delete(64, "pSquare")

DeleteCircle == Delete(65, "pCircle")

\* the closing brace of main: control leaves main, which returns 0
Return ==
    /\ pc = 66
    /\ exitCode' = 0
    /\ pc' = 67
    /\ UNCHANGED <<libVars, argc, col, p2d0, p3d0, heap, out, released>>

(* =========================== specifications =========================== *)
\* The library: objects constructed from every combination of arguments,
\* then any sequence of calls on them.  The demo has not started.
Init ==
    /\ in \in Inputs
    /\ shape = Construct(in)
    /\ ret = NoCall
    /\ exc = FALSE
    /\ argc = 1
    /\ NotStarted

Next ==
    \/ Call_getX
    \/ Call_getY
    \/ Call_getZ
    \/ Call_getRadius
    \/ Call_getWidth
    \/ Call_getHeight
    \/ Call_getSide
    \/ Call_getEdge
    \/ Call_area
    \/ Call_perimeter
    \/ Call_volume

Spec == Init /\ [][Next]_vars

\* The demo: main run from its first statement to its return.  A running
\* program takes its next step, hence the weak fairness.
DemoInit ==
    /\ in = [px |-> 0, py |-> 0, pz |-> 0, a |-> 0, b |-> 0, form |-> "point"]
    /\ shape = Construct(in)
    /\ ret = NoCall
    /\ exc = FALSE
    /\ argc \in 1 .. MaxArgc
    /\ NotStarted

DemoNext ==
    \/ DeclP2d0
    \/ DeclP3d0
    \/ NewCircle
    \/ NewSquare
    \/ NewSphere
    \/ NewCube
    \/ InsertText
    \/ InsertValue
    \/ InsertEndl
    \/ DeleteCube
    \/ DeleteSphere
    \/ DeleteSquare
    \/ DeleteCircle
    \/ Return

DemoSpec == DemoInit /\ [][DemoNext]_vars /\ WF_vars(DemoNext)

(* ========================= claims: the library ======================== *)
\* the last call was o.op()
Called(o, op) == ret.obj = o /\ ret.op = op

\* the planar shapes and the calls each takes
Planar == {"circle", "rect", "square"}

OpsOf(o) ==
    CASE o = "circle" -> {"getRadius", "area", "perimeter"}
      [] o = "rect"   -> {"getWidth", "getHeight", "area", "perimeter"}
      [] o = "square" -> {"getSide", "area", "perimeter"}
      [] o = "sphere" -> {"getRadius", "area", "perimeter", "volume"}
      [] o = "cube"   -> {"getEdge", "area", "perimeter", "volume"}
      [] o = "p2d"    -> {"getX", "getY"}
      [] o = "p3d"    -> {"getX", "getY", "getZ"}

Objects == {"p2d", "p3d", "circle", "rect", "square", "sphere", "cube"}

\* C1: for every centre and radius r, Sphere(centre, r).perimeter() returns
\* what perimeter() of a standalone Circle of radius r returns, wherever
\* that circle lies: 2 * M_PI * r rounded once, which is not 0 unless r is.
C1_SpherePerimeterIsCircle ==
    LET atOrigin == Circle_ctorXY(I(0), I(0), in.a)
        elsewhere == Circle_ctorP(Point2D_ctor(I(1), I(-1)), in.a)
        sp == Sphere_perimeter(shape.sphere).ret
    IN  /\ sp = Circle_perimeter(atOrigin).ret
        /\ sp = Circle_perimeter(elsewhere).ret
        /\ sp = Circle_perimeter(shape.circle).ret
        /\ 2 * Abs(sp * Scale - 2 * M_PI * in.a) <= Scale
        /\ (in.a # 0 => sp # 0)
        /\ (Called("sphere", "perimeter") => ret.val = sp)

C1_Witness ==
    /\ Called("sphere", "perimeter")
    /\ in.a = H(3)
    /\ in.pz = I(-1)
    /\ in.px = I(0)
    /\ ret.val > I(9)

\* C2: for every edge a, zero and negative included, and every centre,
\* Cube(a).area() is exactly 6 * a * a and Cube(a).perimeter() is 0.
C2_CubeAreaAndPerimeter ==
    /\ Cube_area(shape.cube).ret * Scale = 6 * in.a * in.a
    /\ Cube_perimeter(shape.cube).ret = 0
    /\ (Called("cube", "area") => ret.val * Scale = 6 * in.a * in.a)
    /\ (Called("cube", "perimeter") => ret.val = 0)

C2_Witness ==
    /\ Called("cube", "area")
    /\ in.a = H(-3)
    /\ ret.val = H(27)

\* C3 as stated: perimeter() is 0 for every Sphere and every Cube.
C3_PerimeterZeroIn3D ==
    (ret.obj \in {"sphere", "cube"} /\ ret.op = "perimeter") => ret.val = 0

\* C3 as amended: perimeter() is 0 for every Cube; for a Sphere it is the
\* perimeter of the embedded circle, which is 0 only when the radius is 0.
C3_PerimeterZeroForCubeOnly ==
    /\ (Called("cube", "perimeter") => ret.val = 0)
    /\ (Called("sphere", "perimeter") =>
            /\ ret.val = Circle_perimeter(shape.sphere.cr).ret
            /\ (ret.val = 0 <=> in.a = 0))

C3_Witness ==
    /\ Called("sphere", "perimeter")
    /\ in.a = H(-1)
    /\ ret.val < 0

\* C4: a planar shape constructed from a reference point p and one
\* constructed from the coordinates (p.x, p.y), with the same scalar
\* parameters, return the same area(), perimeter() and getter values.
C4_ConstructorsEquivalent ==
    LET p == shape.p2d
        x == Point2D_getX(p).ret
        y == Point2D_getY(p).ret
        byPoint == [circle |-> Circle_ctorP(p, in.a),
                    rect   |-> Rectangle_ctorP(p, in.a, in.b),
                    square |-> Square_ctorP(p, in.a)]
        byCoords == [circle |-> Circle_ctorXY(x, y, in.a),
                     rect   |-> Rectangle_ctorXY(x, y, in.a, in.b),
                     square |-> Square_ctorXY(x, y, in.a)]
        other == IF in.form = "point" THEN byCoords ELSE byPoint
    IN  /\ \A o \in Planar : \A op \in OpsOf(o) :
              Apply(o, op, byPoint[o]).ret = Apply(o, op, byCoords[o]).ret
        /\ \A o \in Planar :
              /\ Point2D_getX(byPoint[o].ref_point).ret
                     = Point2D_getX(byCoords[o].ref_point).ret
              /\ Point2D_getY(byPoint[o].ref_point).ret
                     = Point2D_getY(byCoords[o].ref_point).ret
        /\ (ret.obj \in Planar =>
               ret.val = Apply(ret.obj, ret.op, other[ret.obj]).ret)

C4_Witness ==
    /\ in.form = "coords"
    /\ Called("circle", "area")
    /\ in.a = H(3)
    /\ in.px = I(-1)
    /\ in.py = I(0)
    /\ ret.val > I(7)

\* C5: no constructor and no operation signals failure, whatever the
\* numbers: zero and negative parameters are stored as given and the result
\* is the formula applied to them; a Rectangle with w < 0 < h has the
\* negative area w * h, a Cube with a < 0 the negative volume a * a * a.
C5_NoValidation ==
    /\ exc = FALSE
    /\ shape.circle.radius = in.a
    /\ shape.rect.width = in.a
    /\ shape.rect.height = in.b
    /\ shape.square.side = in.a
    /\ shape.sphere.cr.radius = in.a
    /\ shape.cube.sq.side = in.a
    /\ \A o \in Objects : \A op \in OpsOf(o) :
          /\ Apply(o, op, shape[o]).thrown = FALSE
          /\ Apply(o, op, shape[o]).ret \in Int
    /\ (Called("rect", "area") =>
            /\ ret.val * Scale = in.a * in.b
            /\ (in.a < 0 /\ 0 < in.b => ret.val < 0))
    /\ (Called("cube", "volume") =>
            /\ ret.val * Scale = ((in.a * in.a) \div Scale) * in.a
            /\ (in.a < 0 => ret.val < 0))

C5_Witness ==
    /\ Called("rect", "area")
    /\ in.a = H(-3)
    /\ in.b = I(2)
    /\ ret.val = I(-3)
    /\ exc = FALSE

\* C6: every point and shape is immutable after construction: after any
\* sequence of calls every stored field of every object is what the
\* constructor stored, and every call returns what it returns on the
\* freshly constructed object.
C6_Immutable ==
    /\ shape = Construct(in)
    /\ (ret # NoCall =>
           ret.val = Apply(ret.obj, ret.op, Construct(in)[ret.obj]).ret)

C6_Witness ==
    /\ Called("cube", "area")
    /\ in.a = H(3)
    /\ shape.cube.sq.side = H(3)
    /\ ret.val = H(27)

\* C8: Rectangle is symmetric in its dimensions: Rectangle(w, h) and
\* Rectangle(h, w) have the same area, w * h, and the same perimeter,
\* 2 * (w + h), for every centre.
C8_RectangleSymmetric ==
    LET swapped == IF in.form = "point"
                   THEN Rectangle_ctorP(shape.p2d, in.b, in.a)
                   ELSE Rectangle_ctorXY(in.px, in.py, in.b, in.a)
        r == shape.rect
    IN  /\ Rectangle_area(r).ret = Rectangle_area(swapped).ret
        /\ Rectangle_perimeter(r).ret = Rectangle_perimeter(swapped).ret
        /\ Rectangle_area(r).ret * Scale = in.a * in.b
        /\ Rectangle_perimeter(r).ret = 2 * (in.a + in.b)
        /\ (Called("rect", "area") => ret.val = Rectangle_area(swapped).ret)
        /\ (Called("rect", "perimeter") =>
               ret.val = Rectangle_perimeter(swapped).ret)

C8_Witness ==
    /\ Called("rect", "perimeter")
    /\ in.a = H(1)
    /\ in.b = I(-2)
    /\ ret.val = I(-3)

\* C9: for every side s given to either Square constructor, zero and
\* negative included, getSide() returns exactly s and perimeter() is
\* 4 * getSide().
C9_SquarePerimeter ==
    LET byPoint == Square_ctorP(shape.p2d, in.a)
        byCoords == Square_ctorXY(in.px, in.py, in.a)
    IN  /\ \A q \in {byPoint, byCoords, shape.square} :
              /\ Square_getSide(q).ret = in.a
              /\ Square_perimeter(q).ret = 4 * Square_getSide(q).ret
        /\ (Called("square", "getSide") => ret.val = in.a)
        /\ (Called("square", "perimeter") => ret.val = 4 * in.a)

C9_Witness ==
    /\ Called("square", "perimeter")
    /\ in.a = H(-3)
    /\ ret.val = I(-6)

\* C10: for every r > 0 and any centre, Circle(r).perimeter() /
\* Circle(r).area() is 2 / r, and r * perimeter() is 2 * area(), each
\* within Tol units of the last place.
C10_PerimeterAreaRatio ==
    LET c == shape.circle
        per == Circle_perimeter(c).ret
        ar == Circle_area(c).ret
    IN  in.a > 0 =>
            /\ ar > 0
            /\ Abs(Div(per, ar) - Div(I(2), in.a)) <= Tol
            /\ Abs(Mul(in.a, per) - 2 * ar) <= Tol
            /\ (Called("circle", "area") => ret.val = ar)
            /\ (Called("circle", "perimeter") => ret.val = per)

C10_Witness ==
    /\ Called("circle", "area")
    /\ in.a = H(1)
    /\ ret.val > 0
    /\ Circle_perimeter(shape.circle).ret > I(3)

(* ========================== claims: the demo ========================== *)
\* the values inserted into cout so far, in order
Printed == SelectSeq(out, LAMBDA e : e.k = "value")

\* the order the demo is to print in
ExpectedPrints ==
    << <<"pCircle", "getRadius">>, <<"pCircle", "area">>,
       <<"pCircle", "perimeter">>,
       <<"pSquare", "getSide">>, <<"pSquare", "area">>,
       <<"pSquare", "perimeter">>,
       <<"pSphere", "getRadius">>, <<"pSphere", "area">>,
       <<"pSphere", "perimeter">>, <<"pSphere", "volume">>,
       <<"pCube", "getEdge">>, <<"pCube", "area">>,
       <<"pCube", "perimeter">>, <<"pCube", "volume">> >>

\* the two origin points and the four shapes exist, with the demo's sizes
AllConstructed ==
    /\ p2d0 = [x |-> 0, y |-> 0]
    /\ p3d0 = [x |-> 0, y |-> 0, z |-> 0]
    /\ \A p \in Pointers : heap[p].st # "unset"
    /\ heap.pCircle.obj.radius = H(7)
    /\ heap.pSquare.obj.side = I(3)
    /\ heap.pSphere.obj.cr.radius = H(7)
    /\ heap.pCube.obj.sq.side = I(3)

\* every print statement has run to its endl
AllPrinted == Len(out) = 3 * Len(ExpectedPrints) /\ col = 0

C7_Order ==
    /\ Len(Printed) <= Len(ExpectedPrints)
    /\ \A i \in 1 .. Len(Printed) :
          <<Printed[i].ptr, Printed[i].op>> = ExpectedPrints[i]
    /\ Len(out) <= 3 * Len(ExpectedPrints)
    /\ (out # << >> => AllConstructed)
    /\ (released # << >> => AllPrinted)
    /\ \A i, j \in 1 .. Len(released) : released[i] = released[j] => i = j
    /\ \A p \in Pointers :
          heap[p].st = "freed" <=> \E i \in 1 .. Len(released) : released[i] = p
    /\ (Len(Printed) >= 1 => Printed[1].v = H(7))
    /\ (Len(Printed) >= 4 => Printed[4].v = I(3))
    /\ (Len(Printed) >= 7 => Printed[7].v = H(7))
    /\ (Len(Printed) >= 11 => Printed[11].v = I(3))
    /\ exitCode \in {-1, 0}
    /\ (exitCode = 0 <=> pc = 67)
    /\ (pc = 67 => AllPrinted /\ Len(released) = Cardinality(Pointers))

\* C7: the demo constructs the two origin points and the four shapes
\* (Circle 3.5, Square 3, Sphere 3.5, Cube 3) before its first output,
\* prints in the order of ExpectedPrints, releases the shapes only after the
\* last print, each once and none used afterwards, and then returns 0.
C7_DemoRun == [] C7_Order /\ <>(pc = 67 /\ exitCode = 0)

C7_Witness ==
    /\ pc = 67
    /\ exitCode = 0
    /\ Len(Printed) = 14
    /\ released = <<"pCube", "pSphere", "pSquare", "pCircle">>
    /\ argc = 2

=============================================================================
